---- MODULE Spec2Model ----
(***************************************************************************)
(* Task tracker (src/main.py): one table `tasks`, the request handlers of  *)
(* the FastAPI application, first-run seeding and the simulated e-mail      *)
(* summary that is dispatched as a background task.                        *)
(*                                                                         *)
(* Dates are day numbers (the ISO text SQLite stores orders the same way). *)
(* Text built by f-strings is a sequence of pieces, one per `+=`.          *)
(***************************************************************************)
EXTENDS Integers, Sequences, FiniteSets, TLC

VARIABLES
    tasks,       \* the rows of table `tasks`, in rowid order
    today,       \* what date.today() returns
    started,     \* the process is up and startup_event has run
    request,     \* the last event handled (startup or a request): operation,
                 \* inputs, alternating bit; for a toggle that found its
                 \* row, the flag before it
    response,    \* the response emitted for it
    background,  \* dispatches scheduled with BackgroundTasks, not yet run
    stdout,      \* summaries printed by send_daily_email_summary
    email_log,   \* entries appended to data/email_log.txt
    session      \* per worker process: the row its toggle request has loaded

vars == <<tasks, today, started, request, response, background, stdout,
          email_log, session>>

----------------------------------------------------------------------------
(* Bounds of the model *)

MaxDay == 1          \* days are 0..MaxDay
MaxCreates == 1      \* rows created through POST /tasks
MaxEmails == 1       \* POST /simulate-email requests whose dispatch is kept
MaxLen == 3          \* rows of a table drawn as the input of a query
NumWorkers == 2      \* server processes sharing the database file

Days == 0..MaxDay
Workers == 1..NumWorkers

(* date(2026, 2, 20), the fixed due date of the seeded "Plan Weekend Trip" *)
TripDate == 1

Priorities == {"High", "Medium", "Low"}
Titles == {"t1", "t2"}
Descriptions == {"d1", "d2"}

----------------------------------------------------------------------------
(* Rows *)

Task(id, title, description, priority, due_date, completed) ==
    [id |-> id, title |-> title, description |-> description,
     priority |-> priority, due_date |-> due_date, completed |-> completed]

Range(s) == {s[i] : i \in 1..Len(s)}

Ids(t) == {t[i].id : i \in 1..Len(t)}

SetMax(S) == CHOOSE m \in S : \A x \in S : x <= m

(* INTEGER PRIMARY KEY: a new row gets the largest rowid plus one *)
NextId(t) == IF t = <<>> THEN 1 ELSE SetMax(Ids(t)) + 1

(* db.add / db.add_all followed by db.commit: rows are inserted in the     *)
(* order given, each with the next id                                     *)
RECURSIVE Insert(_, _)
Insert(t, rows) ==
    IF rows = <<>> THEN t
    ELSE Insert(Append(t, [rows[1] EXCEPT !.id = NextId(t)]), Tail(rows))

RowOf(t, task_id) == CHOOSE i \in 1..Len(t) : t[i].id = task_id

----------------------------------------------------------------------------
(* Seeding *)

tasks_to_add(d) ==
    << Task(0, "Finish FastAPI App",
            "Complete all functional and technical requirements.",
            "High", d, FALSE),
       Task(0, "Buy Groceries", "Milk, Eggs, Bread, Vegetables",
            "Medium", d, FALSE),
       Task(0, "Call Mom", "Wish her a happy birthday.", "High", d, FALSE),
       Task(0, "Plan Weekend Trip", "Research destinations and activities.",
            "Low", TripDate, FALSE),
       Task(0, "Workout", "Go to the gym for an hour.", "Medium", d, TRUE) >>

(* seeding that does not look at the row count *)
seed_database_always(t, d) == {Insert(t, tasks_to_add(d)), t}

(* The tables seed_database can leave behind: the seeded one when the      *)
(* count is zero, the table as it was otherwise; an exception raised by    *)
(* the store is caught and printed, and the table is as it was.            *)
seed_database(t, d) ==
    IF Len(t) = 0 THEN {Insert(t, tasks_to_add(d)), t} ELSE {t}

----------------------------------------------------------------------------
(* Queries *)

(* UTF-8 bytes of the priority labels: the String column is compared with  *)
(* SQLite's BINARY collation                                              *)
Bytes(p) ==
    CASE p = "High"   -> <<72, 105, 103, 104>>
      [] p = "Medium" -> <<77, 101, 100, 105, 117, 109>>
      [] p = "Low"    -> <<76, 111, 119>>

RECURSIVE SeqLess(_, _)
SeqLess(a, b) ==
    IF a = <<>> THEN b # <<>>
    ELSE IF b = <<>> THEN FALSE
    ELSE IF a[1] # b[1] THEN a[1] < b[1]
    ELSE SeqLess(Tail(a), Tail(b))

(* ordering by urgency instead of by label: High, Medium, Low *)
StrLess_urgency(p, q) ==
    \/ p = "High" /\ q # "High"
    \/ p = "Medium" /\ q = "Low"

StrLess(p, q) == SeqLess(Bytes(p), Bytes(q))

(* ORDER BY tasks.due_date, tasks.priority *)
KeyLess(r1, r2) ==
    \/ r1.due_date < r2.due_date
    \/ r1.due_date = r2.due_date /\ StrLess(r1.priority, r2.priority)

(* Every order of the rows S the ORDER BY allows: rows with equal keys     *)
(* come in an order SQL leaves open                                       *)
RECURSIVE SortedOrders(_)
SortedOrders(S) ==
    IF S = {} THEN {<<>>}
    ELSE UNION { {<<m>> \o s : s \in SortedOrders(S \ {m})} :
                 m \in {x \in S : \A y \in S : ~KeyLess(y, x)} }

all_tasks(t) == SortedOrders(Range(t))

(* the dashboard filter without its completed clause *)
IsDueTodayHigh(r, d) == r.due_date = d /\ r.priority = "High"

IsDueTodayHighIncomplete(r, d) ==
    r.due_date = d /\ r.priority = "High" /\ r.completed = FALSE

high_priority_tasks(t, d) ==
    SelectSeq(t, LAMBDA r : IsDueTodayHighIncomplete(r, d))

pending_tasks(t) == SelectSeq(t, LAMBDA r : r.completed = FALSE)

----------------------------------------------------------------------------
(* Requests and responses *)

NoArgs == [task_id |-> 0, title |-> "", description |-> "", priority |-> "",
           due_date |-> 0, before |-> FALSE]

Flip(b) == 1 - b

Req(op, args) == [op |-> op, bit |-> Flip(request.bit), args |-> args]

TemplateResponse(name, rows) ==
    [status |-> 200, url |-> "", template |-> name, tasks |-> rows]

RedirectResponse(url) ==
    [status |-> 303, url |-> url, template |-> "", tasks |-> <<>>]

Response(status) ==
    [status |-> status, url |-> "", template |-> "", tasks |-> <<>>]

----------------------------------------------------------------------------
(* The e-mail summary *)

Header(d) == [kind |-> "header", date |-> d]
NoPending == [kind |-> "none"]
Checkbox(task) ==
    [kind |-> "checkbox", title |-> task.title, priority |-> task.priority,
     due_date |-> task.due_date]

RECURSIVE CheckboxLines(_)
CheckboxLines(pending) ==
    IF pending = <<>> THEN <<>>
    ELSE <<Checkbox(Head(pending))>> \o CheckboxLines(Tail(pending))

(* the summary with the "no pending tasks" line outside the if *)
build_summary_no_else(pending, d) ==
    <<Header(d), NoPending>> \o CheckboxLines(pending)

(* the text `summary` of send_daily_email_summary *)
build_summary(pending, d) ==
    IF pending = <<>> THEN <<Header(d), NoPending>>
    ELSE <<Header(d)>> \o CheckboxLines(pending)

Remove(s, j) == [i \in 1..(Len(s) - 1) |-> IF i < j THEN s[i] ELSE s[i + 1]]

----------------------------------------------------------------------------
(* The server: one process, handlers run one at a time on the event loop   *)

IdleSession == [pc |-> "idle", task_id |-> 0, completed |-> FALSE]

Init ==
    /\ tasks = <<>>
    /\ today \in Days
    /\ started = FALSE
    /\ request = [op |-> "none", bit |-> 0, args |-> NoArgs]
    /\ response = Response(0)
    /\ background = <<>>
    /\ stdout = <<>>
    /\ email_log = <<>>
    /\ session = [w \in Workers |-> IdleSession]

(* rows that came in through POST /tasks *)
Created(t) == Cardinality({i \in 1..Len(t) : t[i].title \in Titles})

(* @app.on_event("startup"): seeding runs before any request is served *)
startup_event ==
    /\ ~started
    /\ started' = TRUE
    /\ request' = Req("startup", NoArgs)
    /\ tasks' \in seed_database(tasks, today)
    /\ UNCHANGED <<today, response, background, stdout, email_log, session>>

(* the process ends: the database file, the log file and the console       *)
(* output stay, dispatches still scheduled in memory are gone              *)
Shutdown ==
    /\ started
    /\ started' = FALSE
    /\ background' = <<>>
    /\ UNCHANGED <<tasks, today, request, response, stdout, email_log, session>>

(* midnight: date.today() moves on *)
Tick ==
    /\ today < MaxDay
    /\ today' = today + 1
    /\ UNCHANGED <<tasks, started, request, response, background, stdout,
                   email_log, session>>

(* GET /health: a dict is returned under response_class=HTMLResponse; the  *)
(* framework either renders it or fails to (status 500)                   *)
health ==
    /\ started
    /\ request' = Req("health", NoArgs)
    /\ \E status \in {200, 500} : response' = Response(status)
    /\ UNCHANGED <<tasks, today, started, background, stdout, email_log, session>>

(* GET / *)
dashboard ==
    /\ started
    /\ request' = Req("dashboard", NoArgs)
    /\ response' = TemplateResponse("dashboard.html",
                                    high_priority_tasks(tasks, today))
    /\ UNCHANGED <<tasks, today, started, background, stdout, email_log, session>>

(* GET /tasks *)
list_tasks ==
    /\ started
    /\ request' = Req("list_tasks", NoArgs)
    /\ \E rows \in all_tasks(tasks) :
           response' = TemplateResponse("tasks.html", rows)
    /\ UNCHANGED <<tasks, today, started, background, stdout, email_log, session>>

(* the row with title and description taken from each other's field *)
new_task_swapped(title, description, priority, due_date) ==
    Task(0, description, title, priority, due_date, FALSE)

(* the row create_task builds from the form fields *)
new_task(title, description, priority, due_date) ==
    Task(0, title, description, priority, due_date, FALSE)

(* POST /tasks: a priority outside the Literal is rejected by the form     *)
(* validation before the handler body runs                                *)
create_task(title, description, priority, due_date) ==
    /\ started
    /\ request' = Req("create_task",
                      [NoArgs EXCEPT !.title = title,
                                     !.description = description,
                                     !.priority = priority,
                                     !.due_date = due_date])
    /\ IF priority \in Priorities
       THEN /\ Created(tasks) < MaxCreates
            /\ tasks' = Insert(tasks, <<new_task(title, description,
                                                 priority, due_date)>>)
            /\ response' = RedirectResponse("/tasks")
       ELSE /\ tasks' = tasks
            /\ response' = Response(422)
    /\ UNCHANGED <<today, started, background, stdout, email_log, session>>

(* a toggle that marks the row completed instead of negating the flag *)
toggled_set(t, task_id) ==
    [t EXCEPT ![RowOf(t, task_id)].completed = TRUE]

(* a toggle whose update has no filter on the id: every row is negated *)
toggled_all(t, task_id) == [i \in 1..Len(t) |-> [t[i] EXCEPT !.completed = ~@]]

(* task.completed = not task.completed; db.commit() *)
toggled(t, task_id) ==
    [t EXCEPT ![RowOf(t, task_id)].completed = ~t[RowOf(t, task_id)].completed]

(* the ids toggle requests are sent for: one below every id, the first    *)
(* row, the last row, and the id the next row would get                  *)
ToggleIds(t) == {0, 1, Len(t), NextId(t)}

(* a toggle that reports an unknown id *)
toggle_response_404(t, task_id) ==
    IF task_id \in Ids(t) THEN RedirectResponse("/tasks") ELSE Response(404)

(* the response of the toggle handler, the same with and without a row *)
toggle_response(t, task_id) == RedirectResponse("/tasks")

(* POST /tasks/{task_id}/toggle *)
toggle_task_completion(task_id) ==
    /\ started
    /\ IF task_id \in Ids(tasks)
       THEN /\ tasks' = toggled(tasks, task_id)
            /\ request' = Req("toggle",
                   [NoArgs EXCEPT !.task_id = task_id,
                       !.before = tasks[RowOf(tasks, task_id)].completed])
       ELSE /\ tasks' = tasks
            /\ request' = Req("toggle", [NoArgs EXCEPT !.task_id = task_id])
    /\ response' = toggle_response(tasks, task_id)
    /\ UNCHANGED <<today, started, background, stdout, email_log, session>>

(* a handler that awaits the dispatch itself: the summary is written       *)
(* before the response, and a failing write becomes the response          *)
trigger_email_summary_inline ==
    /\ started
    /\ Len(stdout) + Len(background) < MaxEmails
    /\ request' = Req("simulate_email", NoArgs)
    /\ LET summary == build_summary(pending_tasks(tasks), today) IN
         /\ stdout' = Append(stdout, summary)
         /\ \/ /\ email_log' = Append(email_log, [timestamp |-> today,
                                                  summary |-> summary])
               /\ response' = RedirectResponse("/")
            \/ /\ email_log' = email_log
               /\ response' = Response(500)
    /\ UNCHANGED <<tasks, today, started, background, session>>

(* POST /simulate-email: the dispatch is handed to BackgroundTasks, which  *)
(* runs it once the response has been sent                                *)
trigger_email_summary ==
    /\ started
    /\ Len(stdout) + Len(background) < MaxEmails
    /\ request' = Req("simulate_email", NoArgs)
    /\ background' = Append(background, pending_tasks(tasks))
    /\ response' = RedirectResponse("/")
    /\ UNCHANGED <<tasks, today, started, stdout, email_log,
                   session>>

(* send_daily_email_summary, run as a background task: the summary is      *)
(* printed, then appended to the log file unless opening or writing the    *)
(* file raises                                                             *)
send_daily_email_summary(j) ==
    /\ started
    /\ j \in 1..Len(background)
    /\ LET summary == build_summary(background[j], today) IN
         /\ stdout' = Append(stdout, summary)
         /\ \/ email_log' = Append(email_log, [timestamp |-> today,
                                               summary |-> summary])
            \/ email_log' = email_log
    /\ background' = Remove(background, j)
    /\ UNCHANGED <<tasks, today, started, request, response,
                   session>>

(* The whole server: every handler, the dispatch, restarts and the change  *)
(* of date. Rows are created with one title and description, Low and due   *)
(* today.                                                                  *)
Next ==
    \/ startup_event
    \/ Shutdown
    \/ Tick
    \/ health
    \/ dashboard
    \/ list_tasks
    \/ create_task("t1", "d1", "Low", today)
    \/ create_task("t1", "d1", "Urgent", 0)
    \/ \E task_id \in ToggleIds(tasks) : toggle_task_completion(task_id)
    \/ trigger_email_summary
    \/ \E j \in 1..Len(background) : send_daily_email_summary(j)

Spec == Init /\ [][Next]_vars

(* Creating: every title, description, priority and due date, on tables    *)
(* seeded or not, with the first row toggled or not                        *)
NextCreate ==
    \/ startup_event
    \/ \E title \in Titles, description \in Descriptions,
          priority \in Priorities, due_date \in Days :
          create_task(title, description, priority, due_date)
    \/ create_task("t1", "d1", "Urgent", 0)
    \/ \E task_id \in {1, NextId(tasks)} : toggle_task_completion(task_id)

SpecCreate == Init /\ [][NextCreate]_vars

(* Toggling: every id from 0 to the first unused one, across restarts *)
NextToggle ==
    \/ startup_event
    \/ Shutdown
    \/ create_task("t1", "d1", "High", today)
    \/ \E task_id \in 0..NextId(tasks) : toggle_task_completion(task_id)

SpecToggle == Init /\ [][NextToggle]_vars

(* The dashboard while rows are created and toggled and the date changes *)
NextDash ==
    \/ startup_event
    \/ Tick
    \/ \E priority \in Priorities, due_date \in Days :
          create_task("t1", "d1", priority, due_date)
    \/ \E task_id \in ToggleIds(tasks) : toggle_task_completion(task_id)
    \/ dashboard

SpecDash == Init /\ [][NextDash]_vars

(* Seeding: restarts on tables that are empty, seeded, or filled by hand *)
NextSeed ==
    \/ startup_event
    \/ Shutdown
    \/ Tick
    \/ \E priority \in Priorities, due_date \in Days :
          create_task("t1", "d1", priority, due_date)
    \/ \E task_id \in ToggleIds(tasks) : toggle_task_completion(task_id)

SpecSeed == Init /\ [][NextSeed]_vars

(* The e-mail simulation while rows are toggled, the date changes and the  *)
(* process restarts                                                       *)
NextEmail ==
    \/ startup_event
    \/ Shutdown
    \/ Tick
    \/ \E task_id \in ToggleIds(tasks) : toggle_task_completion(task_id)
    \/ trigger_email_summary
    \/ \E j \in 1..Len(background) : send_daily_email_summary(j)

SpecEmail == Init /\ [][NextEmail]_vars

----------------------------------------------------------------------------
(* The task list as a function of the table: the table is any table of up  *)
(* to MaxLen rows entered through POST /tasks                              *)

InitList ==
    /\ \E n \in 0..MaxLen : \E f \in [1..n -> Priorities \X Days] :
          tasks = [i \in 1..n |-> Task(i, "t1", "d1", f[i][1], f[i][2], FALSE)]
    /\ today \in Days
    /\ started = TRUE
    /\ request = [op |-> "startup", bit |-> 0, args |-> NoArgs]
    /\ response = Response(0)
    /\ background = <<>>
    /\ stdout = <<>>
    /\ email_log = <<>>
    /\ session = [w \in Workers |-> IdleSession]

NextList == list_tasks

SpecList == InitList /\ [][NextList]_vars

----------------------------------------------------------------------------
(* Several server processes on the same database file: a toggle request    *)
(* loads the row in its own session, negates the loaded flag and commits   *)
(* an UPDATE that carries the new value; requests of different processes   *)
(* interleave between the SELECT and the COMMIT                            *)

(* an UPDATE that negates the stored flag inside the statement *)
committed_in_sql(t, s) ==
    [t EXCEPT ![RowOf(t, s.task_id)].completed = ~t[RowOf(t, s.task_id)].completed]

(* UPDATE tasks SET completed = <not the loaded value> WHERE id = <id> *)
committed(t, s) ==
    [t EXCEPT ![RowOf(t, s.task_id)].completed = ~s.completed]

(* task = db.query(Task).filter(Task.id == task_id).first() *)
toggle_load(w, task_id) ==
    /\ started
    /\ session[w].pc # "loaded"
    /\ IF task_id \in Ids(tasks)
       THEN /\ session' = [session EXCEPT ![w] =
                   [pc |-> "loaded", task_id |-> task_id,
                    completed |-> tasks[RowOf(tasks, task_id)].completed]]
            /\ UNCHANGED <<request, response>>
       ELSE /\ session' = [session EXCEPT ![w] = IdleSession]
            /\ request' = Req("toggle", [NoArgs EXCEPT !.task_id = task_id])
            /\ response' = toggle_response(tasks, task_id)
    /\ UNCHANGED <<tasks, today, started, background, stdout, email_log>>

(* task.completed = not task.completed; db.commit(); the redirect *)
toggle_commit(w) ==
    /\ started
    /\ session[w].pc = "loaded"
    /\ tasks' = committed(tasks, session[w])
    /\ session' = [session EXCEPT ![w].pc = "done"]
    /\ request' = Req("toggle", [NoArgs EXCEPT !.task_id = session[w].task_id,
                                              !.before = session[w].completed])
    /\ response' = toggle_response(tasks, session[w].task_id)
    /\ UNCHANGED <<today, started, background, stdout, email_log>>

InitConc ==
    /\ today \in Days
    /\ tasks = Insert(<<>>, tasks_to_add(today))
    /\ started = TRUE
    /\ request = [op |-> "startup", bit |-> 0, args |-> NoArgs]
    /\ response = Response(0)
    /\ background = <<>>
    /\ stdout = <<>>
    /\ email_log = <<>>
    /\ session = [w \in Workers |-> IdleSession]

NextConc ==
    \/ \E w \in Workers, task_id \in ToggleIds(tasks) : toggle_load(w, task_id)
    \/ \E w \in Workers : toggle_commit(w)

SpecConc == InitConc /\ [][NextConc]_vars

----------------------------------------------------------------------------
(* Properties *)

(* the step handles an event of kind op *)
Handles(op) == request' # request /\ request'.op = op

SeedTitles ==
    <<"Finish FastAPI App", "Buy Groceries", "Call Mom", "Plan Weekend Trip",
      "Workout">>

(* C1: a valid create request leaves the table as it was plus exactly one  *)
(* new row that carries the submitted title, description, priority and     *)
(* due date with completed false, and is answered by a 303 to /tasks.      *)
C1_CreateAddsOneRow ==
    [][(Handles("create_task") /\ request'.args.priority \in Priorities) =>
        /\ Len(tasks') = Len(tasks) + 1
        /\ SubSeq(tasks', 1, Len(tasks)) = tasks
        /\ tasks'[Len(tasks')].id \notin Ids(tasks)
        /\ tasks'[Len(tasks')].title = request'.args.title
        /\ tasks'[Len(tasks')].description = request'.args.description
        /\ tasks'[Len(tasks')].priority = request'.args.priority
        /\ tasks'[Len(tasks')].due_date = request'.args.due_date
        /\ tasks'[Len(tasks')].completed = FALSE
        /\ response'.status = 303
        /\ response'.url = "/tasks"]_vars

(* a row was created in a seeded table in which a row had been toggled *)
C1_Witness ==
    /\ request.op = "create_task"
    /\ request.args.priority \in Priorities
    /\ response.status = 303
    /\ Len(tasks) = 6
    /\ tasks[6].title = request.args.title
    /\ tasks[6].description = request.args.description
    /\ tasks[1].completed

(* C2: a toggle can be sent for every existing id at any time; it negates  *)
(* the row's flag, and a toggle that directly follows a toggle of the same *)
(* id puts the flag back to what it was before the first of the two.       *)
C2_ToggleInvolution ==
    /\ [](started => \A id \in Ids(tasks) : ENABLED toggle_task_completion(id))
    /\ [][(Handles("toggle") /\ request'.args.task_id \in Ids(tasks)) =>
            LET i == RowOf(tasks, request'.args.task_id) IN
              /\ tasks'[i].completed = ~tasks[i].completed
              /\ (request.op = "toggle"
                  /\ request.args.task_id = request'.args.task_id)
                 => tasks'[i].completed = request.args.before]_vars

(* the first seeded row, seeded open, was completed and has been toggled   *)
(* back to open                                                            *)
C2_Witness ==
    /\ request.op = "toggle"
    /\ request.args.task_id = 1
    /\ request.args.before = TRUE
    /\ Len(tasks) >= 5
    /\ tasks[1].title = "Finish FastAPI App"
    /\ tasks[1].completed = FALSE

(* C3: a toggle for an id that is not in the table leaves the table as it  *)
(* was, and every toggle, row or no row, is answered by a 303 to /tasks.   *)
C3_ToggleUnknownId ==
    [][Handles("toggle") =>
        /\ response'.status = 303
        /\ response'.url = "/tasks"
        /\ request'.args.task_id \notin Ids(tasks) => tasks' = tasks]_vars

(* an unknown id was toggled on a table that has rows *)
C3_Witness ==
    /\ request.op = "toggle"
    /\ request.args.task_id \notin Ids(tasks)
    /\ tasks # <<>>
    /\ response.status = 303

(* C4: the dashboard returns exactly the rows that are due today, of High  *)
(* priority and not completed, each once, and changes no row.              *)
C4_DashboardFilter ==
    [][Handles("dashboard") =>
        /\ response'.status = 200
        /\ Range(response'.tasks) =
              {r \in Range(tasks) :
                  r.due_date = today /\ r.priority = "High" /\ ~r.completed}
        /\ Cardinality(Range(response'.tasks)) = Len(response'.tasks)
        /\ tasks' = tasks]_vars

(* the dashboard was asked for after the first seeded row, High and due    *)
(* today, had been completed: it shows the other High row and not this one *)
C4_Witness ==
    /\ request.op = "dashboard"
    /\ Len(tasks) >= 5
    /\ tasks[1].title = "Finish FastAPI App"
    /\ tasks[1].due_date = today
    /\ tasks[1].completed
    /\ tasks[1] \notin Range(response.tasks)
    /\ tasks[3] \in Range(response.tasks)

(* position of a priority label in plain string order *)
LabelRank(p) == CASE p = "High" -> 1 [] p = "Low" -> 2 [] p = "Medium" -> 3

(* C5: the task list holds every row of the table exactly once, ascending  *)
(* by due date and, for equal due dates, by label: High, Low, Medium.      *)
C5_ListOrdered ==
    request.op = "list_tasks" =>
        /\ response.status = 200
        /\ Len(response.tasks) = Len(tasks)
        /\ Range(response.tasks) = Range(tasks)
        /\ \A i, j \in 1..Len(response.tasks) :
              i < j =>
                \/ response.tasks[i].due_date < response.tasks[j].due_date
                \/ /\ response.tasks[i].due_date = response.tasks[j].due_date
                   /\ LabelRank(response.tasks[i].priority)
                        <= LabelRank(response.tasks[j].priority)

(* rows created as Medium, Low, High for the same day are listed as High,  *)
(* Low, Medium                                                             *)
C5_Witness ==
    /\ request.op = "list_tasks"
    /\ Len(tasks) = 3
    /\ tasks[1].due_date = tasks[2].due_date
    /\ tasks[2].due_date = tasks[3].due_date
    /\ <<tasks[1].priority, tasks[2].priority, tasks[3].priority>>
          = <<"Medium", "Low", "High">>
    /\ response.tasks = <<tasks[3], tasks[2], tasks[1]>>

(* C6: startup seeding changes the table only when it holds no row, and    *)
(* then to the five example rows; a table with a row is left as it is.     *)
C6_SeedOnlyWhenEmpty ==
    [][Handles("startup") =>
        IF tasks # <<>> THEN tasks' = tasks
        ELSE \/ tasks' = tasks
             \/ /\ Len(tasks') = 5
                /\ [i \in 1..5 |-> tasks'[i].title] = SeedTitles
                /\ [i \in 1..5 |-> tasks'[i].id] = <<1, 2, 3, 4, 5>>
                /\ [i \in 1..5 |-> tasks'[i].completed]
                      = <<FALSE, FALSE, FALSE, FALSE, TRUE>>]_vars

(* the process started again on the seeded table after a toggle: still the *)
(* five rows, the toggled flag kept                                        *)
C6_Witness ==
    /\ request.op = "startup"
    /\ started
    /\ Len(tasks) = 5
    /\ tasks[1].title = "Finish FastAPI App"
    /\ tasks[1].completed

(* C7: the summary printed for no task is the header and the one "no       *)
(* pending tasks" line; the summary for N >= 1 tasks is the header and N   *)
(* checkbox lines, the i-th with title, priority and due date of the i-th  *)
(* task, and no "no pending tasks" line.                                   *)
C7_SummaryLines ==
    [][stdout' # stdout =>
        /\ Len(stdout') = Len(stdout) + 1
        /\ \E j \in 1..Len(background) :
             LET p == background[j]
                 text == stdout'[Len(stdout')]
             IN /\ text[1] = [kind |-> "header", date |-> today]
                /\ IF p = <<>>
                   THEN /\ Len(text) = 2
                        /\ text[2].kind = "none"
                   ELSE /\ Len(text) = Len(p) + 1
                        /\ \A i \in 1..Len(p) :
                             /\ text[i + 1].kind = "checkbox"
                             /\ text[i + 1].title = p[i].title
                             /\ text[i + 1].priority = p[i].priority
                             /\ text[i + 1].due_date = p[i].due_date]_vars

(* a summary of the four open seeded rows has been printed *)
C7_Witness ==
    /\ Len(stdout) = 1
    /\ Len(stdout[1]) = 5
    /\ stdout[1][2].kind = "checkbox"
    /\ stdout[1][2].title = "Finish FastAPI App"
    /\ stdout[1][5].kind = "checkbox"
    /\ stdout[1][5].title = "Plan Weekend Trip"

(* C8: no step removes a row or changes its id, title, description,        *)
(* priority or due date, and a row's completed flag changes only in a step *)
(* that handles a toggle request for that row's id.                        *)
C8_RowsOnlyToggled ==
    [][/\ Len(tasks') >= Len(tasks)
       /\ \A i \in 1..Len(tasks) :
            /\ tasks'[i].id = tasks[i].id
            /\ tasks'[i].title = tasks[i].title
            /\ tasks'[i].description = tasks[i].description
            /\ tasks'[i].priority = tasks[i].priority
            /\ tasks'[i].due_date = tasks[i].due_date
            /\ tasks'[i].completed # tasks[i].completed =>
                 /\ Handles("toggle")
                 /\ request'.args.task_id = tasks[i].id]_vars

(* a seeded table after a toggle, a create and a dispatched summary *)
C8_Witness ==
    /\ Len(tasks) = 6
    /\ tasks[1].completed
    /\ tasks[6].completed
    /\ stdout # <<>>
    /\ request.op \in {"health", "dashboard", "list_tasks"}

(* C9: the simulate-email handler answers with a 303 to / and only         *)
(* schedules the dispatch of the tasks that are open at that moment; the   *)
(* summary is written in a later step, for a dispatch scheduled before,    *)
(* and that step, write failure included, does not touch the response.     *)
C9_DispatchAfterResponse ==
    [][/\ Handles("simulate_email") =>
            /\ response'.status = 303
            /\ response'.url = "/"
            /\ background' = Append(background,
                                    SelectSeq(tasks, LAMBDA r : ~r.completed))
            /\ stdout' = stdout
            /\ email_log' = email_log
       /\ (stdout' # stdout \/ email_log' # email_log) =>
            /\ background # <<>>
            /\ Len(background') = Len(background) - 1
            /\ request' = request
            /\ response' = response]_vars

(* the dispatch of a simulate-email request has run and failed to write    *)
(* the log; the response of the request is the redirect                   *)
C9_Witness ==
    /\ request.op = "simulate_email"
    /\ response.status = 303
    /\ response.url = "/"
    /\ background = <<>>
    /\ Len(stdout) = 1
    /\ email_log = <<>>

====
